---------------------------- MODULE Spec2Model ----------------------------
(***************************************************************************)
(* Jobly static scripts.                                                   *)
(*                                                                         *)
(*   app/static/auth.js   - session guard (checkAuth), logout (doLogout)   *)
(*   app/static/script.js - landing page listeners (hover, bookmark,       *)
(*                          navigation buttons, icon buttons, anchors)     *)
(*                                                                         *)
(* A step of the model is one task of the browser's event loop: an event   *)
(* handler, or the continuation of an async function after the promise it  *)
(* awaits has settled.  Between two awaits the code runs without           *)
(* interruption, so each such stretch is one action.                       *)
(*                                                                         *)
(* Assigning window.location.href requests a navigation; the model records *)
(* the request and lets the remaining tasks of the page run.               *)
(***************************************************************************)
EXTENDS Integers, Sequences, FiniteSets, TLC

VARIABLES
    SKIP_AUTH_GUARD,   \* window.SKIP_AUTH_GUARD as the page set it (a JS value)
    logoutBtn,         \* document.getElementById('logoutBtn') finds an element
    authReady,         \* auth.js' DOMContentLoaded handler has run
    localStorage,      \* key -> value, Absent when the key is not stored
    storageFault,      \* the removeItem statement at which storage throws here
    currentUser,       \* window.currentUser (a JS value)
    href,              \* last value assigned to window.location.href
    console,           \* console output, oldest first
    guard,             \* the one checkAuth() call of the page view
    logouts,           \* the doLogout() calls of the page view, in call order
    pageReady,         \* script.js' DOMContentLoaded handler has run
    cards,             \* .job-card elements
    bookmarks,         \* .bookmark-btn elements
    buttons,           \* which of the optional buttons the page has
    lastEvent,         \* the last DOM event dispatched and the listeners it ran
    events             \* number of DOM events dispatched so far

authVars == <<SKIP_AUTH_GUARD, logoutBtn, authReady, localStorage, storageFault,
              currentUser,
              guard, logouts>>
pageVars == <<pageReady, cards, bookmarks, buttons, lastEvent, events>>
vars == <<authVars, pageVars, href, console>>

-----------------------------------------------------------------------------
(* Bounds *)

MaxLogouts == 2        \* doLogout() calls in one page view
MaxEvents == 4         \* DOM events dispatched on the landing page
MaxJoint == 1          \* either of them, on a page that loads both scripts

-----------------------------------------------------------------------------
(* JavaScript values.  Every value is a record of one shape so that any two *)
(* can be compared; the fields other than tag matter for objects only.      *)

Prim(t) == [tag |-> t, id |-> 0, email |-> "", rol |-> "", nombre |-> ""]
User(i, e, r, n) == [tag |-> "object", id |-> i, email |-> e, rol |-> r, nombre |-> n]

Undefined == Prim("undefined")
Null == Prim("null")
False == Prim("false")
True == Prim("true")

Truthy(v) == v.tag \notin {"undefined", "null", "false", "zero", "emptystr"}
Nullish(v) == v.tag \in {"undefined", "null"}

UserA == User(1, "ana@jobly.ec", "empresa", "Ana")
UserB == User(2, "rrhh@acme.ec", "empresa", "")

\* values a JSON body can carry in its user field (Undefined: no such field)
UserFields == {Undefined, Null, False, True, UserA, UserB}

\* parsed JSON bodies: res.json() resolves with one of these
Body(t, u) == [dtag |-> t, user |-> u]
Bodies == {Body("null", Undefined), Body("number", Undefined)}
          \cup {Body("object", u) : u \in UserFields}
NoBody == Body("unread", Undefined)

\* data.user, for any parsed value: only an object can have the field
UserOf(data) == IF data.dtag = "object" THEN data.user ELSE Undefined
TruthyData(data) == data.dtag \notin {"null", "zero", "unread"}


-----------------------------------------------------------------------------
(* auth.js: the session guard *)

UNAUTHORIZED == 401
LoginPath == "/login"
ThisPage == "(this page)"

\* statuses GET /api/me may answer with
Statuses == {200, 401, 403, 500}

\* res.ok
Ok(status) == status >= 200 /\ status <= 299

NoResponse == [kind |-> "none", status |-> 0]
Rejected == [kind |-> "rejected", status |-> 0]
Response(status) == [kind |-> "response", status |-> status]

\* the checkAuth() call: where it is suspended, what fetch gave it, what
\* res.json() gave it, the value its promise resolved with, and what it did
GuardIdle == [pc |-> "idle", res |-> NoResponse, data |-> NoBody,
              ret |-> Undefined, steps |-> <<>>]

\* The part of the window a checkAuth() continuation reads and writes.
World == [currentUser |-> currentUser, href |-> href, console |-> console,
          guard |-> guard]

\* faulty variant: fetch is called without await, so checkAuth goes on with
\* the pending promise as res (res.ok is undefined, res.status is not 401)
\* and lands in its catch block while the request is in flight
CheckAuthStart_NoAwait(w) ==
    [w EXCEPT !.console = Append(@, "Error during auth check:"),
              !.href = LoginPath,
              !.guard.pc = "awaitFetch",
              !.guard.steps = @ \o <<"GET /api/me", "console.error",
                                     "location.href = /login">>]

\* checkAuth up to its first await: fetch('/api/me', { method: 'GET' })
CheckAuthStart(w) ==
    [w EXCEPT !.guard.pc = "awaitFetch",
              !.guard.steps = Append(@, "GET /api/me")]

\* faulty variant: the catch block without its console.error
CheckAuthCatch_Silent(w) ==
    [w EXCEPT !.href = LoginPath,
              !.guard.pc = "done",
              !.guard.ret = Null,
              !.guard.steps = Append(@, "location.href = /login")]

\* faulty variant: the catch block tries the session check once more
CheckAuthCatch_Retry(w) ==
    [w EXCEPT !.console = Append(@, "Error during auth check:"),
              !.guard.pc = "awaitFetch",
              !.guard.steps = @ \o <<"console.error", "GET /api/me">>]

\* the catch block of checkAuth
CheckAuthCatch(w) ==
    [w EXCEPT !.console = Append(@, "Error during auth check:"),
              !.href = LoginPath,
              !.guard.pc = "done",
              !.guard.ret = Null,
              !.guard.steps = @ \o <<"console.error", "location.href = /login">>]

\* faulty variant: 401 is not told apart and the response is read like an ok one
CheckAuthOnResponse_401AsOk(w, status) ==
    LET v == [w EXCEPT !.guard.res = Response(status)] IN
    IF ~Ok(status) /\ status # UNAUTHORIZED
    THEN [v EXCEPT !.console = Append(@, "Error during auth check:"),
                   !.href = LoginPath,
                   !.guard.pc = "done",
                   !.guard.ret = Null,
                   !.guard.steps = @ \o <<"console.error", "location.href = /login">>]
    ELSE [v EXCEPT !.guard.pc = "awaitJson",
                   !.guard.steps = Append(@, "res.json()")]

\* checkAuth from the fetch promise fulfilling with a response of this status
\* to the next await or return
CheckAuthOnResponse(w, status) ==
    LET v == [w EXCEPT !.guard.res = Response(status)] IN
    IF ~Ok(status)
    THEN IF status = UNAUTHORIZED
         THEN [v EXCEPT !.href = LoginPath,
                        !.guard.pc = "done",
                        !.guard.ret = Null,
                        !.guard.steps = Append(@, "location.href = /login")]
         ELSE CheckAuthCatch(v)
    ELSE [v EXCEPT !.guard.pc = "awaitJson",
                   !.guard.steps = Append(@, "res.json()")]

\* checkAuth when the fetch promise rejects
CheckAuthOnReject(w) == CheckAuthCatch([w EXCEPT !.guard.res = Rejected])

\* return data?.user ?? null
ReturnValue(data) ==
    IF data.dtag = "null" \/ Nullish(UserOf(data)) THEN Null ELSE UserOf(data)

\* faulty variant: only part of the user record is kept
CheckAuthOnData_Partial(w, data) ==
    LET v == [w EXCEPT !.guard.data = data,
                       !.guard.pc = "done",
                       !.guard.ret = ReturnValue(data)] IN
    IF TruthyData(data) /\ Truthy(UserOf(data))
    THEN [v EXCEPT !.currentUser = [UserOf(data) EXCEPT !.nombre = ""],
                   !.guard.steps = Append(@, "window.currentUser = data.user")]
    ELSE v

\* faulty variant: data.user is stored without the test of line 20
CheckAuthOnData_Unguarded(w, data) ==
    LET v == [w EXCEPT !.guard.data = data,
                       !.guard.pc = "done",
                       !.guard.ret = ReturnValue(data)] IN
    [v EXCEPT !.currentUser = UserOf(data),
              !.guard.steps = Append(@, "window.currentUser = data.user")]

\* faulty variant: a body without a user is taken as a failed check
CheckAuthOnData_RedirectsEmpty(w, data) ==
    LET v == [w EXCEPT !.guard.data = data,
                       !.guard.pc = "done",
                       !.guard.ret = ReturnValue(data)] IN
    IF TruthyData(data) /\ Truthy(UserOf(data))
    THEN [v EXCEPT !.currentUser = UserOf(data),
                   !.guard.steps = Append(@, "window.currentUser = data.user")]
    ELSE [v EXCEPT !.href = LoginPath,
                   !.guard.steps = Append(@, "location.href = /login")]

\* checkAuth from res.json() resolving with data to its return
CheckAuthOnData(w, data) ==
    LET v == [w EXCEPT !.guard.data = data,
                       !.guard.pc = "done",
                       !.guard.ret = ReturnValue(data)] IN
    IF TruthyData(data) /\ Truthy(UserOf(data))
    THEN [v EXCEPT !.currentUser = UserOf(data),
                   !.guard.steps = Append(@, "window.currentUser = data.user")]
    ELSE v

\* checkAuth when res.json() rejects (the body is not JSON, the read fails)
CheckAuthOnBadBody(w) ==
    CheckAuthCatch([w EXCEPT !.guard.data = Body("invalid", Undefined)])

\* faulty variant: the flag is not looked at
GuardEnabled_Always(flag) == TRUE

\* if (!window.SKIP_AUTH_GUARD)
GuardEnabled(flag) == ~Truthy(flag)

SetWorld(w) ==
    /\ currentUser' = w.currentUser
    /\ href' = w.href
    /\ console' = w.console
    /\ guard' = w.guard

-----------------------------------------------------------------------------
(* auth.js: logout *)

Absent == "(absent)"

\* the keys doLogout removes, in the order of its removeItem calls
LogoutKeys == <<"jobly_user", "authEmail", "employerRegistration", "ultimaVacanteId">>

\* keys other code of the site keeps in local storage
OtherKeys == {"theme", "lastSearch"}
StorageKeys == {"jobly_user", "authEmail", "employerRegistration", "ultimaVacanteId"}
               \cup OtherKeys

Stored(present) == [k \in StorageKeys |-> IF k \in present THEN "v:" \o k ELSE Absent]

\* what local storage may hold when the page loads
InitialStores ==
    { Stored(StorageKeys), Stored(OtherKeys),
      Stored({"authEmail", "employerRegistration", "lastSearch"}) }

\* how POST /api/logout may settle
LogoutOutcomes == {"resolved ok", "resolved error status", "rejected"}

\* The removeItem statement that throws in this browser: 0 when none does
\* (storage works), i when statement i of the try block throws (storage is
\* blocked, broken or replaced) and the rest of the block is skipped.
StorageFailures == 0 .. Len(LogoutKeys)

Removed(failAt) == IF failAt = 0 THEN Len(LogoutKeys) ELSE failAt - 1

\* faulty variant: localStorage.clear() in place of the four removals
ClearLocal_All(store, failAt) ==
    [k \in DOMAIN store |-> IF failAt = 0 THEN Absent ELSE store[k]]

\* local storage after the try block of doLogout
ClearLocal(store, failAt) ==
    [k \in DOMAIN store |->
        IF \E i \in 1 .. Removed(failAt) : LogoutKeys[i] = k
        THEN Absent ELSE store[k]]

\* the steps of that try block
ClearSteps(failAt) ==
    [i \in 1 .. Removed(failAt) |-> "removeItem " \o LogoutKeys[i]]
    \o (IF failAt = 0 THEN <<>> ELSE <<"removeItem throws">>)

\* doLogout up to its await; the click listener calls e.preventDefault() first
DoLogoutStart(via) ==
    [pc |-> "awaitFetch", via |-> via, outcome |-> "pending",
     steps |-> (IF via = "click" THEN <<"preventDefault">> ELSE <<>>)
               \o <<"POST /api/logout">>]

\* faulty variant: the navigation is requested before the keys are cleared
DoLogoutResume_NavFirst(l, outcome, failAt) ==
    [l EXCEPT !.pc = "done",
              !.outcome = outcome,
              !.steps = @ \o <<"fetch settled", "location.href = /login">>
                          \o ClearSteps(failAt)]

\* faulty variant: the removals are not in a try block, so a removal that
\* throws ends doLogout with a rejected promise, before line 45
DoLogoutResume_Uncaught(l, outcome, failAt) ==
    IF failAt = 0
    THEN [l EXCEPT !.pc = "done",
                   !.outcome = outcome,
                   !.steps = @ \o <<"fetch settled">> \o ClearSteps(failAt)
                               \o <<"location.href = /login">>]
    ELSE [l EXCEPT !.pc = "failed",
                   !.outcome = outcome,
                   !.steps = @ \o <<"fetch settled">> \o ClearSteps(failAt)]

\* doLogout from the settling of the fetch promise to its end
DoLogoutResume(l, outcome, failAt) ==
    [l EXCEPT !.pc = "done",
              !.outcome = outcome,
              !.steps = @ \o <<"fetch settled">> \o ClearSteps(failAt)
                          \o <<"location.href = /login">>]

\* faulty variant: doLogout ends without the assignment of line 45
DoLogoutHref_Stay(old) == old

\* window.location.href after doLogout has run to its end
DoLogoutHref(old) == LoginPath

-----------------------------------------------------------------------------
(* The landing page as an empresa page sees it: script.js is not loaded *)

NoLanding ==
    /\ pageReady = FALSE
    /\ cards = <<>>
    /\ bookmarks = <<>>
    /\ buttons = {}
    /\ lastEvent = [type |-> "none", target |-> <<"none", 0>>, ran |-> <<>>]
    /\ events = 0

InitAuth ==
    /\ SKIP_AUTH_GUARD \in {Undefined, False, True}
    /\ logoutBtn \in BOOLEAN
    /\ authReady = FALSE
    /\ localStorage \in InitialStores
    /\ storageFault \in StorageFailures
    /\ currentUser = Undefined
    /\ guard = GuardIdle
    /\ logouts = <<>>

Init ==
    /\ InitAuth
    /\ NoLanding
    /\ href = ThisPage
    /\ console = <<>>

\* document DOMContentLoaded, auth.js listener: the click listener of
\* #logoutBtn is attached from here on, and the guard starts unless opted out
AuthDOMContentLoaded ==
    /\ ~authReady
    /\ authReady' = TRUE
    /\ IF GuardEnabled(SKIP_AUTH_GUARD)
       THEN SetWorld(CheckAuthStart(World))
       ELSE UNCHANGED <<currentUser, href, console, guard>>
    /\ UNCHANGED <<SKIP_AUTH_GUARD, logoutBtn, localStorage, storageFault, logouts,
                 pageVars>>

AuthFrame == UNCHANGED <<SKIP_AUTH_GUARD, logoutBtn, authReady, localStorage,
                         storageFault,
                         logouts, pageVars>>

\* GET /api/me is answered
MeResponds(status) ==
    /\ guard.pc = "awaitFetch"
    /\ SetWorld(CheckAuthOnResponse(World, status))
    /\ AuthFrame

\* GET /api/me fails (network error, request timeout of the browser)
MeRejects ==
    /\ guard.pc = "awaitFetch"
    /\ SetWorld(CheckAuthOnReject(World))
    /\ AuthFrame

\* the body of the /api/me response has been read and parsed
MeBodyParsed(data) ==
    /\ guard.pc = "awaitJson"
    /\ SetWorld(CheckAuthOnData(World, data))
    /\ AuthFrame

\* the body of the /api/me response cannot be read or parsed
MeBodyFails ==
    /\ guard.pc = "awaitJson"
    /\ SetWorld(CheckAuthOnBadBody(World))
    /\ AuthFrame

\* faulty variant: logout also forgets the user
LogoutFrame_ClearsUser ==
    /\ currentUser' = Undefined
    /\ UNCHANGED <<SKIP_AUTH_GUARD, logoutBtn, authReady, storageFault,
                   console, guard, pageVars>>

LogoutFrame == UNCHANGED <<SKIP_AUTH_GUARD, logoutBtn, authReady, storageFault,
                           currentUser,
                           console, guard, pageVars>>

\* page code calls window.handleLogout()
HandleLogout ==
    /\ Len(logouts) < MaxLogouts
    /\ logouts' = Append(logouts, DoLogoutStart("handleLogout"))
    /\ UNCHANGED <<localStorage, href>>
    /\ LogoutFrame

\* faulty variant: the click listener is attached on guarded pages only
LogoutBtnWired_GuardedOnly ==
    authReady /\ logoutBtn /\ GuardEnabled(SKIP_AUTH_GUARD)

\* #logoutBtn has its click listener: the DOMContentLoaded handler has run and
\* found the button (if (btn) btn.addEventListener('click', ...))
LogoutBtnWired == authReady /\ logoutBtn

\* the user clicks #logoutBtn
ClickLogoutBtn ==
    /\ LogoutBtnWired
    /\ Len(logouts) < MaxLogouts
    /\ logouts' = Append(logouts, DoLogoutStart("click"))
    /\ UNCHANGED <<localStorage, href>>
    /\ LogoutFrame

\* POST /api/logout of call i settles and doLogout runs to its end
LogoutSettles(i, outcome) ==
    /\ logouts[i].pc = "awaitFetch"
    /\ logouts' = [logouts EXCEPT ![i] = DoLogoutResume(@, outcome, storageFault)]
    /\ localStorage' = ClearLocal(localStorage, storageFault)
    /\ href' = DoLogoutHref(href)
    /\ LogoutFrame

\* POST /api/logout of call i is never answered: the server holds the
\* connection open and the fetch promise stays pending
LogoutStalls(i) ==
    /\ logouts[i].pc = "awaitFetch"
    /\ logouts' = [logouts EXCEPT ![i].pc = "pending forever"]
    /\ UNCHANGED <<localStorage, href>>
    /\ LogoutFrame

Next ==
    \/ AuthDOMContentLoaded
    \/ \E status \in Statuses : MeResponds(status)
    \/ MeRejects
    \/ \E data \in Bodies : MeBodyParsed(data)
    \/ MeBodyFails
    \/ HandleLogout
    \/ ClickLogoutBtn
    \/ \E i \in DOMAIN logouts, o \in LogoutOutcomes : LogoutSettles(i, o)
    \/ \E i \in DOMAIN logouts : LogoutStalls(i)

Spec == Init /\ [][Next]_vars

-----------------------------------------------------------------------------
(* script.js: the landing page *)

HoverShadow == "0px 1px 2px 0px rgba(16, 24, 40, 0.08), 0px 1px 3px 0px rgba(16, 24, 40, 0.08)"
HoverBorder == "#A2A6A4"
RestBorder == "#CFD4D1"
Ink == "#141514"

\* a .job-card: whether it carries class job-card-hover, and its inline style
\* ("" while the script has set nothing)
Card(hover) == [hover |-> hover, boxShadow |-> "", borderColor |-> ""]

\* a .bookmark-btn: the card it sits in (0: in none), whether it holds an
\* 'svg path', that path's fill and stroke attributes (Absent: not set), the
\* fill the page was served with and the clicks received
Bookmark(card, hasPath, fill, stroke) ==
    [card |-> card, hasPath |-> hasPath, fill |-> fill, stroke |-> stroke,
     fill0 |-> fill, clicks |-> 0]

FillValues == {"none", Ink, "currentColor", Absent}
StrokeValues == {"none", Ink}

AllButtons == {"btn-login", "btn-register-employer", "btn-register-candidate",
               "icon-btn", "anchor", "anchor-dangling"}

NoEvent == [type |-> "none", target |-> <<"none", 0>>, ran |-> <<>>]

\* mouseenter listener of a card
CardMouseEnter(c) ==
    [c EXCEPT !.boxShadow = HoverShadow, !.borderColor = HoverBorder]

\* faulty variant: the class job-card-hover is not looked at
CardMouseLeave_Always(c) ==
    [c EXCEPT !.boxShadow = "none", !.borderColor = RestBorder]

\* faulty variant: the test of the class is inverted
CardMouseLeave_Inverted(c) ==
    IF c.hover
    THEN [c EXCEPT !.boxShadow = "none", !.borderColor = RestBorder]
    ELSE c

\* mouseleave listener of a card
CardMouseLeave(c) ==
    IF ~c.hover
    THEN [c EXCEPT !.boxShadow = "none", !.borderColor = RestBorder]
    ELSE c

\* faulty variant: only the colour the script itself sets counts as filled
IsFilled_InkOnly(fill) == fill = Ink

\* svg.getAttribute('fill') !== 'none'; getAttribute gives null when not set
IsFilled(fill) == fill # "none"

\* faulty variant: the listener sets fill and leaves stroke as it is
BookmarkClick_FillOnly(b) ==
    LET n == [b EXCEPT !.clicks = @ + 1] IN
    IF ~b.hasPath THEN n
    ELSE IF IsFilled(b.fill)
         THEN [n EXCEPT !.fill = "none"]
         ELSE [n EXCEPT !.fill = Ink]

\* click listener of a bookmark button, after e.stopPropagation(): with no
\* 'svg path' inside, svg is null and the listener throws at getAttribute
BookmarkClick(b) ==
    LET n == [b EXCEPT !.clicks = @ + 1] IN
    IF ~b.hasPath THEN n
    ELSE IF IsFilled(b.fill)
         THEN [n EXCEPT !.fill = "none", !.stroke = Ink]
         ELSE [n EXCEPT !.fill = Ink, !.stroke = "none"]

\* faulty variant: the listener without e.stopPropagation()
BookmarkPropagates == FALSE

\* the bookmark listener calls e.stopPropagation() as its first statement
BookmarkStopsPropagation == TRUE

\* The listeners a click on bookmark b runs, target first: its own, then,
\* while propagation is not stopped, those of the card around it.
BookmarkClickPath(b) ==
    <<"bookmark">>
    \o (IF ~BookmarkStopsPropagation /\ b.card # 0 THEN <<"card">> ELSE <<>>)

\* click listener of a card
CardClickLog == "Job card clicked"

\* what the listeners in ran write to the console, in order
ConsoleOf(ran) ==
    SelectSeq([i \in DOMAIN ran |-> IF ran[i] = "card" THEN CardClickLog ELSE ""],
              LAMBDA t : t # "")

\* the path a navigation button sends the browser to
ButtonTarget(b) ==
    CASE b = "btn-login" -> "/login"
      [] b = "btn-register-employer" -> "/register/employer/step1"
      [] b = "btn-register-candidate" -> "/register/empleado/step1"

NavButtons == {"btn-login", "btn-register-employer", "btn-register-candidate"}

NoAuthScript ==
    /\ SKIP_AUTH_GUARD = Undefined
    /\ logoutBtn = FALSE
    /\ authReady = FALSE
    /\ localStorage = Stored({})
    /\ storageFault = 0
    /\ currentUser = Undefined
    /\ guard = GuardIdle
    /\ logouts = <<>>

InitPage ==
    /\ pageReady = FALSE
    /\ cards = <<Card(FALSE), Card(TRUE)>>
    /\ \E f \in FillValues, k \in StrokeValues, p \in BOOLEAN :
          bookmarks = <<Bookmark(1, TRUE, f, k), Bookmark(2, p, "none", Ink)>>
    /\ buttons \in {AllButtons, {}}
    /\ lastEvent = NoEvent
    /\ events = 0

PageInit ==
    /\ InitPage
    /\ NoAuthScript
    /\ href = ThisPage
    /\ console = <<>>

PageFrame == UNCHANGED <<authVars, pageReady, buttons>>

\* document DOMContentLoaded, script.js listener: all listeners are attached
PageDOMContentLoaded ==
    /\ ~pageReady
    /\ pageReady' = TRUE
    /\ UNCHANGED <<authVars, cards, bookmarks, buttons, lastEvent, events,
                   href, console>>

Dispatch(type, target, ran) ==
    /\ pageReady
    /\ events < MaxEvents
    /\ events' = events + 1
    /\ lastEvent' = [type |-> type, target |-> target, ran |-> ran]

\* the pointer enters card i
MouseEnterCard(i) ==
    /\ Dispatch("mouseenter", <<"card", i>>, <<"card">>)
    /\ cards' = [cards EXCEPT ![i] = CardMouseEnter(@)]
    /\ UNCHANGED <<bookmarks, href, console>>
    /\ PageFrame

\* the pointer leaves card i
MouseLeaveCard(i) ==
    /\ Dispatch("mouseleave", <<"card", i>>, <<"card">>)
    /\ cards' = [cards EXCEPT ![i] = CardMouseLeave(@)]
    /\ UNCHANGED <<bookmarks, href, console>>
    /\ PageFrame

\* a click on bookmark button j
ClickBookmark(j) ==
    /\ Dispatch("click", <<"bookmark", j>>, BookmarkClickPath(bookmarks[j]))
    /\ bookmarks' = [bookmarks EXCEPT ![j] = BookmarkClick(@)]
    /\ console' = console \o ConsoleOf(BookmarkClickPath(bookmarks[j]))
    /\ UNCHANGED <<cards, href>>
    /\ PageFrame

\* a click on card i, outside its bookmark button
ClickCard(i) ==
    /\ Dispatch("click", <<"card", i>>, <<"card">>)
    /\ console' = console \o ConsoleOf(<<"card">>)
    /\ UNCHANGED <<cards, bookmarks, href>>
    /\ PageFrame

\* a click on the login button or on a register button
ClickNavButton(b) ==
    /\ b \in buttons
    /\ Dispatch("click", <<b, 0>>, <<b>>)
    /\ href' = ButtonTarget(b)
    /\ UNCHANGED <<cards, bookmarks, console>>
    /\ PageFrame

\* a click on an .icon-btn: logs its aria-label
ClickIconButton ==
    /\ "icon-btn" \in buttons
    /\ Dispatch("click", <<"icon-btn", 0>>, <<"icon-btn">>)
    /\ console' = Append(console, "Search clicked")
    /\ UNCHANGED <<cards, bookmarks, href>>
    /\ PageFrame

\* a click on an a[href^="#"]: the jump is prevented, and the view scrolls to
\* the target when the document has it
ClickAnchor(a) ==
    /\ a \in buttons
    /\ Dispatch("click", <<a, 0>>,
                <<"preventDefault">>
                \o (IF a = "anchor" THEN <<"scrollIntoView">> ELSE <<>>))
    /\ UNCHANGED <<cards, bookmarks, href, console>>
    /\ PageFrame

PageNext ==
    \/ PageDOMContentLoaded
    \/ \E i \in DOMAIN cards : MouseEnterCard(i)
    \/ \E i \in DOMAIN cards : MouseLeaveCard(i)
    \/ \E j \in DOMAIN bookmarks : ClickBookmark(j)
    \/ \E i \in DOMAIN cards : ClickCard(i)
    \/ \E b \in NavButtons : ClickNavButton(b)
    \/ ClickIconButton
    \/ \E a \in {"anchor", "anchor-dangling"} : ClickAnchor(a)

PageSpec == PageInit /\ [][PageNext]_vars

-----------------------------------------------------------------------------
(* The listeners as functions of the page state they write: the styling of  *)
(* the cards, the bookmark icons and the requested navigation.              *)

PageState == [cards |-> cards, bookmarks |-> bookmarks, href |-> href]

Event(type, kind, n) == [type |-> type, target |-> <<kind, n>>]

\* the events for which the page has a listener
PageEvents ==
    {Event(t, "card", i) : t \in {"mouseenter", "mouseleave", "click"},
                           i \in DOMAIN cards}
    \cup {Event("click", "bookmark", j) : j \in DOMAIN bookmarks}
    \cup {Event("click", b, 0) : b \in buttons}

\* the page state after the listeners of event e have run on state st
Effect(e, st) ==
    LET kind == e.target[1]
        n == e.target[2]
    IN  CASE e.type = "mouseenter" ->
               [st EXCEPT !.cards[n] = CardMouseEnter(@)]
          [] e.type = "mouseleave" ->
               [st EXCEPT !.cards[n] = CardMouseLeave(@)]
          [] e.type = "click" /\ kind = "bookmark" ->
               [st EXCEPT !.bookmarks[n] = BookmarkClick(@)]
          [] e.type = "click" /\ kind \in NavButtons ->
               [st EXCEPT !.href = ButtonTarget(kind)]
          [] OTHER -> st

-----------------------------------------------------------------------------
(* A page that loads both scripts: the tasks of the two interleave freely.  *)
(* One page layout, one store, a guard that is not opted out.               *)

JointInit ==
    /\ SKIP_AUTH_GUARD = Undefined
    /\ logoutBtn = TRUE
    /\ authReady = FALSE
    /\ localStorage = Stored(StorageKeys)
    /\ storageFault = 0
    /\ currentUser = Undefined
    /\ guard = GuardIdle
    /\ logouts = <<>>
    /\ pageReady = FALSE
    /\ cards = <<Card(FALSE), Card(TRUE)>>
    /\ bookmarks = <<Bookmark(1, TRUE, "none", Ink), Bookmark(2, TRUE, Ink, "none")>>
    /\ buttons = AllButtons
    /\ lastEvent = NoEvent
    /\ events = 0
    /\ href = ThisPage
    /\ console = <<>>

JointNext ==
    \/ AuthDOMContentLoaded
    \/ \E status \in Statuses : MeResponds(status)
    \/ MeRejects
    \/ \E data \in Bodies : MeBodyParsed(data)
    \/ MeBodyFails
    \/ Len(logouts) < MaxJoint /\ HandleLogout
    \/ Len(logouts) < MaxJoint /\ ClickLogoutBtn
    \/ \E i \in DOMAIN logouts, o \in LogoutOutcomes : LogoutSettles(i, o)
    \/ \E i \in DOMAIN logouts : LogoutStalls(i)
    \/ PageDOMContentLoaded
    \/ events < MaxJoint /\ \E i \in DOMAIN cards : MouseEnterCard(i)
    \/ events < MaxJoint /\ \E i \in DOMAIN cards : MouseLeaveCard(i)
    \/ events < MaxJoint /\ \E j \in DOMAIN bookmarks : ClickBookmark(j)
    \/ events < MaxJoint /\ \E i \in DOMAIN cards : ClickCard(i)
    \/ events < MaxJoint /\ \E b \in NavButtons : ClickNavButton(b)
    \/ events < MaxJoint /\ ClickIconButton
    \/ events < MaxJoint /\ \E a \in {"anchor", "anchor-dangling"} : ClickAnchor(a)

JointSpec == JointInit /\ [][JointNext]_vars

-----------------------------------------------------------------------------
(* Scheduling.  A continuation whose promise has settled is run by the event *)
(* loop, and a request the network answers or gives up on settles; a request *)
(* the server never answers stays pending (LogoutStalls), and nothing forces *)
(* the user to click.  No step of the page can be taken twice, so weak       *)
(* fairness of the disjunction below is weak fairness of each disjunct: a    *)
(* behaviour does not end while one of these steps is possible.              *)

Progress ==
    \/ AuthDOMContentLoaded
    \/ MeRejects
    \/ \E status \in Statuses : MeResponds(status)
    \/ MeBodyFails
    \/ \E data \in Bodies : MeBodyParsed(data)
    \/ \E i \in DOMAIN logouts, o \in LogoutOutcomes : LogoutSettles(i, o)

Fairness == WF_vars(Progress)

\* Which steps are possible does not depend on what local storage holds, so
\* the behaviours are checked from one store, with storage working or blocked.
FairInit ==
    /\ Init
    /\ localStorage = Stored(StorageKeys)
    /\ storageFault \in {0, 1}

FairSpec == FairInit /\ [][Next]_vars /\ Fairness

-----------------------------------------------------------------------------
(* Properties *)

Has(seq, x) == \E i \in DOMAIN seq : seq[i] = x
Pos(seq, x) == CHOOSE i \in DOMAIN seq : seq[i] = x

NavStep == "location.href = /login"

\* C1: when GET /api/me answers 401 the guard has navigated to /login, has not
\* read the body and has not set window.currentUser, which is still unset.
C1_Unauthorized ==
    (guard.res = Response(401)) =>
        /\ guard.pc = "done"
        /\ Has(guard.steps, NavStep)
        /\ href = "/login"
        /\ ~Has(guard.steps, "res.json()")
        /\ guard.data = NoBody
        /\ ~Has(guard.steps, "window.currentUser = data.user")
        /\ currentUser = Undefined

C1_Witness == guard.res = Response(401) /\ guard.pc = "done" /\ href = "/login"

\* C2: when GET /api/me answers with an ok status and a body holding a user
\* record, after the guard window.currentUser is that record, field for
\* field, and the guard has requested no navigation.
C2_UserStored ==
    (/\ guard.pc = "done"
     /\ guard.res.kind = "response" /\ guard.res.status \in 200 .. 299
     /\ guard.data.dtag = "object" /\ guard.data.user.tag = "object")
    => /\ currentUser = guard.data.user
       /\ ~Has(guard.steps, NavStep)
       /\ ~Has(guard.steps, "console.error")

C2_Witness ==
    /\ guard.pc = "done" /\ guard.res = Response(200)
    /\ guard.data = Body("object", UserA) /\ currentUser = UserA
    /\ href = ThisPage

\* C3: when GET /api/me answers with an ok status and a body without a user
\* field, or with a falsy one, the guard does not write window.currentUser:
\* it is still unset.
C3_NoUserNoWrite ==
    (/\ guard.pc = "done"
     /\ guard.res.kind = "response" /\ guard.res.status \in 200 .. 299
     /\ \/ guard.data.dtag \in {"null", "number"}
        \/ /\ guard.data.dtag = "object"
           /\ guard.data.user.tag \in {"undefined", "null", "false"})
    => /\ currentUser = Undefined
       /\ ~Has(guard.steps, "window.currentUser = data.user")

C3_Witness ==
    /\ guard.pc = "done" /\ guard.res = Response(200)
    /\ guard.data = Body("object", Null) /\ currentUser = Undefined

NamedKeys == {"jobly_user", "authEmail", "employerRegistration", "ultimaVacanteId"}

\* call i of doLogout runs from its await to its end in this step
Finishes(i) == logouts[i].pc = "awaitFetch" /\ logouts'[i].pc = "done"

\* C4 as stated: every logout invocation eventually navigates to /login,
\* whether POST /api/logout succeeds, fails or is never answered.
C4_AlwaysNavigates ==
    \A i \in 1 .. MaxLogouts :
        [](Len(logouts) >= i
           => <>(/\ Len(logouts) >= i
                 /\ href = "/login"
                 /\ Has(logouts[i].steps, NavStep)))

\* C4 amended: every logout invocation whose POST /api/logout settles
\* (resolves with any status, or rejects) navigates to /login; a request that
\* is never answered leaves the invocation suspended, with no key removed by
\* it and no navigation of its own.
C4_NavigatesOnceSettled ==
    \A i \in 1 .. MaxLogouts :
        /\ [](Len(logouts) >= i
              => <>(/\ Len(logouts) >= i
                    /\ \/ logouts[i].pc = "pending forever"
                       \/ /\ logouts[i].pc = "done"
                          /\ href = "/login"
                          /\ Has(logouts[i].steps, NavStep)))
        /\ []((Len(logouts) >= i /\ logouts[i].pc = "pending forever")
              => logouts[i].steps \in {<<"POST /api/logout">>,
                                       <<"preventDefault", "POST /api/logout">>})

C4_Witness ==
    /\ Len(logouts) >= 1
    /\ logouts[1].pc = "done" /\ logouts[1].outcome = "rejected"
    /\ guard.pc = "idle" /\ href = "/login"

\* C5 as stated: a logout invocation leaves all four named keys absent and
\* every other key with its previous value.
C5_ExactlyFourCleared ==
    [][\A i \in DOMAIN logouts :
          Finishes(i) =>
             /\ \A k \in NamedKeys : localStorage'[k] = Absent
             /\ \A k \in StorageKeys \ NamedKeys : localStorage'[k] = localStorage[k]]_vars

\* C5 amended: a logout invocation removes none but the four named keys, and
\* every other key keeps its previous value; when no removal throws, all four
\* named keys are absent after it (when one throws, those before it are).
C5_OnlyNamedKeysCleared ==
    [][/\ \A k \in StorageKeys \ NamedKeys : localStorage'[k] = localStorage[k]
       /\ \A k \in NamedKeys : localStorage'[k] \in {Absent, localStorage[k]}
       /\ (\A i \in DOMAIN logouts : ~Finishes(i)) => localStorage' = localStorage
       /\ \A i \in DOMAIN logouts :
             (Finishes(i) /\ storageFault = 0)
                => \A k \in NamedKeys : localStorage'[k] = Absent]_vars

C5_Witness ==
    /\ \E i \in DOMAIN logouts : logouts[i].pc = "done"
    /\ storageFault = 0
    /\ localStorage = Stored({"lastSearch"})

\* C6: with window.SKIP_AUTH_GUARD set when the page loads, GET /api/me is
\* never sent, window.currentUser is never written and the guard never
\* redirects: /login is requested by a logout only.
C6_OptOut ==
    (SKIP_AUTH_GUARD.tag = "true") =>
        /\ guard.pc = "idle"
        /\ guard.steps = <<>>
        /\ currentUser = Undefined
        /\ console = <<>>
        /\ (href # ThisPage => \E i \in DOMAIN logouts : logouts[i].pc = "done")

C6_Witness ==
    /\ SKIP_AUTH_GUARD = True /\ authReady
    /\ Len(logouts) = MaxLogouts /\ href = ThisPage

\* C7: after n clicks on a bookmark button whose icon path was served with
\* fill f, the path is unfilled (fill 'none') exactly when n is even and f was
\* 'none', or n is odd and f was not 'none'.
C7_BookmarkParity ==
    \A j \in DOMAIN bookmarks :
        LET b == bookmarks[j] IN
        b.hasPath =>
            ((b.fill = "none") <=> ((b.clicks % 2 = 0) <=> (b.fill0 = "none")))

C7_Witness ==
    \E j \in DOMAIN bookmarks :
        /\ bookmarks[j].hasPath /\ bookmarks[j].clicks = 3
        /\ bookmarks[j].fill0 = "currentColor" /\ bookmarks[j].fill = "none"

\* C8: a click on a bookmark button inside a card runs the bookmark listener
\* only, never the card's click listener (nothing is logged); a click on the
\* card outside the bookmark runs the card's click listener, which logs.
C8_BookmarkClickStaysInside ==
    [][(events' # events /\ lastEvent'.type = "click") =>
          /\ (lastEvent'.target[1] = "bookmark"
              /\ bookmarks[lastEvent'.target[2]].card # 0)
             => (~Has(lastEvent'.ran, "card") /\ console' = console)
          /\ (lastEvent'.target[1] = "card")
             => (Has(lastEvent'.ran, "card")
                 /\ console' = Append(console, "Job card clicked"))]_vars

C8_Witness ==
    /\ lastEvent.type = "click" /\ lastEvent.target = <<"bookmark", 1>>
    /\ bookmarks[1].card = 1 /\ bookmarks[1].clicks = 1
    /\ console = <<"Job card clicked">>

\* C9: when the session check fails other than by a 401 (fetch rejects, the
\* status is neither ok nor 401, the body cannot be read), the guard logs the
\* error, then navigates to /login, and does not set window.currentUser.
C9_FailureLogsThenRedirects ==
    (\/ guard.res = Rejected
     \/ /\ guard.res.kind = "response"
        /\ guard.res.status \notin 200 .. 299 /\ guard.res.status # 401
     \/ guard.data.dtag = "invalid")
    => /\ guard.pc = "done"
       /\ console = <<"Error during auth check:">>
       /\ Has(guard.steps, "console.error") /\ Has(guard.steps, NavStep)
       /\ Pos(guard.steps, "console.error") < Pos(guard.steps, NavStep)
       /\ href = "/login"
       /\ ~Has(guard.steps, "window.currentUser = data.user")
       /\ currentUser = Undefined

C9_Witness ==
    /\ guard.pc = "done" /\ guard.res = Response(200)
    /\ guard.data.dtag = "invalid" /\ href = "/login"
    /\ Len(logouts) = 0

RemoveSteps == {"removeItem " \o k : k \in NamedKeys} \cup {"removeItem throws"}

\* C10: within one logout invocation the POST is issued first, it settles
\* before any removeItem, and the navigation is the last step, after the
\* clearing; until some invocation (or the guard) has got that far,
\* location.href is untouched.
C10_LogoutOrder ==
    /\ \A i \in DOMAIN logouts :
          LET st == logouts[i].steps IN
          IF logouts[i].pc = "done"
          THEN /\ Has(st, "POST /api/logout") /\ Has(st, "fetch settled")
               /\ Pos(st, "POST /api/logout") < Pos(st, "fetch settled")
               /\ \A n \in DOMAIN st :
                     st[n] \in RemoveSteps
                        => Pos(st, "fetch settled") < n /\ n < Len(st)
               /\ st[Len(st)] = NavStep
               /\ \A n \in DOMAIN st : st[n] = NavStep => n = Len(st)
          ELSE \A n \in DOMAIN st : st[n] \notin RemoveSteps \cup {NavStep}
    /\ ((\A i \in DOMAIN logouts : logouts[i].pc # "done")
        /\ ~Has(guard.steps, NavStep)) => href = ThisPage

C10_Witness ==
    /\ Len(logouts) = MaxLogouts
    /\ logouts[1].pc = "awaitFetch"
    /\ logouts[MaxLogouts].steps =
          <<"preventDefault", "POST /api/logout", "fetch settled",
            "removeItem jobly_user", "removeItem authEmail",
            "removeItem employerRegistration", "removeItem ultimaVacanteId",
            "location.href = /login">>

\* the session check failed other than by a 401
OtherFailure ==
    \/ guard.res = Rejected
    \/ /\ guard.res.kind = "response"
       /\ guard.res.status \notin 200 .. 299 /\ guard.res.status # 401
    \/ guard.data.dtag = "invalid"

\* the session check succeeded with a body that carries no user
EmptySuccess ==
    /\ guard.pc = "done"
    /\ guard.res.kind = "response" /\ guard.res.status \in 200 .. 299
    /\ \/ guard.data.dtag \in {"null", "number"}
       \/ /\ guard.data.dtag = "object"
          /\ guard.data.user.tag \in {"undefined", "null", "false"}

\* C11 as stated: a successful /api/me response without a user record ends,
\* like a non-401 failure, with a navigation to /login.
C11_EmptySuccessRedirects ==
    (EmptySuccess \/ OtherFailure)
        => (Has(guard.steps, NavStep) /\ href = "/login")

\* C11 amended: the two cases differ.  After a non-401 failure the guard has
\* requested /login; after a successful response without a user record it has
\* requested no navigation and logged nothing, and resolves with a falsy value
\* (null, or the falsy user field itself): unless a logout navigates, the
\* browser stays on the page.
C11_EmptySuccessStays ==
    /\ OtherFailure => Has(guard.steps, NavStep)
    /\ EmptySuccess =>
          /\ guard.steps = <<"GET /api/me", "res.json()">>
          /\ guard.ret.tag \in {"null", "false"}
          /\ console = <<>>
          /\ ((\A i \in DOMAIN logouts : logouts[i].pc # "done") => href = ThisPage)

C11_Witness ==
    /\ EmptySuccess /\ guard.data = Body("object", Undefined)
    /\ href = ThisPage /\ logouts = <<>>

\* C12: a mouseleave on a card without class job-card-hover sets its
\* box-shadow to 'none' and its border colour to '#CFD4D1'; on a card with
\* the class it changes nothing, so the styling of a mouseenter stays.  No
\* other card is touched.
C12_MouseLeaveKeepsFlagged ==
    [][(events' # events /\ lastEvent'.type = "mouseleave") =>
          LET i == lastEvent'.target[2] IN
          /\ lastEvent'.target[1] = "card"
          /\ \A n \in DOMAIN cards : n # i => cards'[n] = cards[n]
          /\ cards'[i].hover = cards[i].hover
          /\ IF cards[i].hover
             THEN cards'[i] = cards[i]
             ELSE /\ cards'[i].boxShadow = "none"
                  /\ cards'[i].borderColor = "#CFD4D1"]_vars

C12_Witness ==
    /\ lastEvent.type = "mouseleave" /\ lastEvent.target = <<"card", 2>>
    /\ cards[2].hover
    /\ cards[2].boxShadow = HoverShadow /\ cards[2].borderColor = "#A2A6A4"

GetInFlight == guard.pc = "awaitFetch"
PostInFlight(i) == logouts[i].pc \in {"awaitFetch", "pending forever"}

\* C13 as stated: GET /api/me and POST /api/logout are never in flight at
\* the same time.
C13_NeverBothInFlight ==
    ~(GetInFlight /\ \E i \in DOMAIN logouts : PostInFlight(i))

\* C13 amended: each flow waits for its own request - while GET /api/me is
\* in flight the guard has done nothing but send it, and while its POST is in
\* flight a logout has done nothing but send it - yet the flows do not wait
\* for each other: a logout invoked while the session check is pending has
\* its POST in flight together with the GET (and with other logouts' POSTs).
C13_EachFlowAwaitsItsOwn ==
    /\ GetInFlight =>
          /\ guard.steps = <<"GET /api/me">>
          /\ guard.res = NoResponse /\ guard.data = NoBody
          /\ currentUser = Undefined /\ console = <<>>
    /\ \A i \in DOMAIN logouts :
          PostInFlight(i) =>
             logouts[i].steps \in {<<"POST /api/logout">>,
                                   <<"preventDefault", "POST /api/logout">>}
    /\ (GetInFlight /\ href # ThisPage)
          => \E i \in DOMAIN logouts : logouts[i].pc = "done"

C13_Witness ==
    /\ GetInFlight
    /\ Len(logouts) = MaxLogouts
    /\ \A i \in DOMAIN logouts : logouts[i].pc = "awaitFetch"

\* C14: window.currentUser is written by the guard alone: it is unset until
\* the guard stores the user of the /api/me body, and is that value from then
\* on; no step of a logout or of a landing-page listener changes it.
C14_SingleWriter ==
    /\ IF Has(guard.steps, "window.currentUser = data.user")
       THEN /\ guard.pc = "done"
            /\ guard.data.dtag = "object"
            /\ guard.data.user \in {True, UserA, UserB}
            /\ currentUser = guard.data.user
       ELSE currentUser = Undefined
    /\ \A i \in DOMAIN logouts :
          ~Has(logouts[i].steps, "window.currentUser = data.user")

C14_Witness ==
    /\ currentUser = UserB
    /\ Len(logouts) = 1 /\ logouts[1].pc = "done"
    /\ events = 1 /\ lastEvent.target = <<"bookmark", 1>>

Count(seq, x) == Cardinality({i \in DOMAIN seq : seq[i] = x})

\* C15: in one page view GET /api/me is sent at most once - exactly once as
\* soon as the guard has started, whatever the outcome - and every logout
\* invocation sends POST /api/logout exactly once.
C15_NoRetry ==
    /\ Count(guard.steps, "GET /api/me") = (IF guard.pc = "idle" THEN 0 ELSE 1)
    /\ \A i \in DOMAIN logouts : Count(logouts[i].steps, "POST /api/logout") = 1

C15_Witness ==
    /\ guard.pc = "done" /\ guard.res = Response(500)
    /\ Count(guard.steps, "GET /api/me") = 1
    /\ Len(logouts) = MaxLogouts
    /\ \A i \in DOMAIN logouts : logouts[i].pc = "done"

Commute(e1, e2) ==
    Effect(e2, Effect(e1, PageState)) = Effect(e1, Effect(e2, PageState))

\* two events whose listeners write the same thing
SameTarget(e1, e2) ==
    \/ /\ e1.target = e2.target /\ e1.target[1] = "card"
       /\ {e1.type, e2.type} = {"mouseenter", "mouseleave"}
       /\ ~cards[e1.target[2]].hover
    \/ /\ e1.target[1] \in NavButtons /\ e2.target[1] \in NavButtons
       /\ e1.target # e2.target

\* C16 as stated: for any two listener events the resulting page state is
\* the same whichever fires first.
C16_AllCommute ==
    pageReady => \A e1, e2 \in PageEvents : Commute(e1, e2)

\* C16 amended: two listener events give the same page state in either order
\* unless their listeners write the same thing - mouseenter and mouseleave on
\* one card without class job-card-hover (the later one decides the styling),
\* clicks on two different navigation buttons (the later one decides the
\* target); in these two cases the order shows.  Every dispatched event
\* changes the page state as its listener alone prescribes.
C16_CommuteUnlessSameTarget ==
    /\ [](pageReady =>
            \A e1, e2 \in PageEvents : Commute(e1, e2) <=> ~SameTarget(e1, e2))
    /\ [][events' # events =>
            /\ [type |-> lastEvent'.type, target |-> lastEvent'.target] \in PageEvents
            /\ PageState' = Effect([type |-> lastEvent'.type,
                                    target |-> lastEvent'.target], PageState)]_vars

C16_Witness ==
    /\ events = 2
    /\ lastEvent = [type |-> "mouseleave", target |-> <<"card", 1>>, ran |-> <<"card">>]
    /\ cards[1].boxShadow = "none"
    /\ cards[2].boxShadow = HoverShadow

\* C17: when a removeItem throws during logout, the exception is swallowed:
\* the invocation still ends with the navigation to /login as its last step,
\* right after the throw, nothing is logged for it, and no invocation is ever
\* left in any state but waiting for its POST or done.
C17_StorageFailureIgnored ==
    /\ \A i \in DOMAIN logouts :
          logouts[i].pc \in {"awaitFetch", "pending forever", "done"}
    /\ storageFault # 0 =>
          \A i \in DOMAIN logouts :
             logouts[i].pc = "done" =>
                LET st == logouts[i].steps IN
                /\ Has(st, "removeItem throws")
                /\ Pos(st, "removeItem throws") = Len(st) - 1
                /\ st[Len(st)] = NavStep
                /\ href = "/login"
                /\ ~Has(console, "removeItem throws")
                /\ (guard.pc \in {"idle", "awaitFetch", "awaitJson"} => console = <<>>)

C17_Witness ==
    /\ storageFault = 2
    /\ Len(logouts) >= 1 /\ logouts[1].pc = "done"
    /\ localStorage["jobly_user"] = Absent
    /\ localStorage["authEmail"] # Absent
    /\ href = "/login" /\ guard.pc = "idle"

\* C18: once a bookmark button holding an icon path has been clicked, fill
\* and stroke of the path are complementary, whatever they were at first:
\* fill 'none' with stroke '#141514', or fill '#141514' with stroke 'none'.
C18_FillStrokeComplementary ==
    \A j \in DOMAIN bookmarks :
        (bookmarks[j].hasPath /\ bookmarks[j].clicks > 0) =>
            \/ bookmarks[j].fill = "none" /\ bookmarks[j].stroke = "#141514"
            \/ bookmarks[j].fill = "#141514" /\ bookmarks[j].stroke = "none"

C18_Witness ==
    /\ bookmarks[1].fill0 = Absent /\ bookmarks[1].clicks = 2
    /\ bookmarks[1].fill = "#141514" /\ bookmarks[1].stroke = "none"

\* C19: with window.SKIP_AUTH_GUARD set, logout works as on any page:
\* window.handleLogout can be called, #logoutBtn has its click listener once
\* the DOM is ready, and an invocation whose POST has settled has run the
\* whole flow - POST /api/logout, the removals, the navigation to /login.
C19_OptOutKeepsLogout ==
    (SKIP_AUTH_GUARD.tag = "true") =>
        /\ Len(logouts) < MaxLogouts =>
              /\ ENABLED HandleLogout
              /\ (authReady /\ logoutBtn) => ENABLED ClickLogoutBtn
        /\ \A i \in DOMAIN logouts :
              /\ logouts[i].steps[1] = "preventDefault" => (authReady /\ logoutBtn)
              /\ logouts[i].pc = "done" =>
                    /\ logouts[i].steps =
                          (IF logouts[i].via = "click"
                           THEN <<"preventDefault">> ELSE <<>>)
                          \o <<"POST /api/logout", "fetch settled">>
                          \o ClearSteps(storageFault)
                          \o <<NavStep>>
                    /\ href = "/login"
                    /\ storageFault = 0 =>
                          \A k \in NamedKeys : localStorage[k] = Absent

C19_Witness ==
    /\ SKIP_AUTH_GUARD = True /\ guard = GuardIdle
    /\ Len(logouts) >= 1
    /\ logouts[1].via = "click" /\ logouts[1].pc = "done"
    /\ storageFault = 0 /\ href = "/login"

=============================================================================
